---- MODULE Spec2Model ----
(***************************************************************************)
(* Remote photo show: the SSE broker (Broker.listen, Broker.ServeHTTP),    *)
(* the show state (imgID, endID, photoJSON, photoErr) and the master       *)
(* commands (reset, setID, prev/next) of the three revisions of the server *)
(* found in the repository:                                                *)
(*   "server.go"  own broker, commands set/reset, loadPhotos               *)
(*   "part_000"   show state as server.go, events handed to sse.Streamer   *)
(*   "part_001"   own broker, commands prev/next, no show state            *)
(***************************************************************************)
EXTENDS Integers, Sequences, FiniteSets, TLC

(* ------------------------------ bounds --------------------------------- *)
\* HTTP requests per run: /listen, /master (POST) and /photos.json
MaxRequests == 3
\* network events (a stall, a failing write, a close) per run
MaxFaults == 2
\* largest id a master request carries
MaxID == 2
\* the photo directory holds the first k of DirEntries, k <= MaxEntries
MaxEntries == 3
\* width of the unsigned integers of the model (uint / uint64 in the source)
UintBits == 8

UintModulus == 2 ^ UintBits
\* register / deregister requests handed to the broker loop taken alone
MaxRegistryOps == 5

Builds == {"server.go", "part_000", "part_001"}
Clients == {"c1", "c2"}
Handlers == {"h1", "h2"}
Procs == {"main"} \cup Handlers
Ids == 0 .. MaxID

(* ------------------------- the photo directory ------------------------- *)
DirEntries ==
  << [name |-> "a.jpg", isDir |-> FALSE],
     [name |-> "thumbs", isDir |-> TRUE],
     [name |-> "b.jpg", isDir |-> FALSE],
     [name |-> "c.jpg", isDir |-> FALSE],
     [name |-> "d.jpg", isDir |-> FALSE] >>

\* an order on the names of interchangeable goroutines and connections
Before(a, b) == (a = "h1" /\ b = "h2") \/ (a = "c1" /\ b = "c2")

Min(a, b) == IF a < b THEN a ELSE b

\* what os.Open / Stat / Readdir can answer: an error, or the entries
Listings == { [ok |-> FALSE, entries |-> << >>] } \cup
            { [ok |-> TRUE, entries |-> SubSeq(DirEntries, 1, k)] :
                k \in 0 .. Min(MaxEntries, Len(DirEntries)) }

\* for _, fileinfo := range fis { if !fileinfo.IsDir() { append } }
RECURSIVE Filenames(_)
Filenames(fis) ==
  IF fis = << >> THEN << >>
  ELSE IF Head(fis).isDir THEN Filenames(Tail(fis))
       ELSE << Head(fis).name >> \o Filenames(Tail(fis))

nil == "nil"

\* a []byte value: nil, or the JSON array of the names
NilBytes == [isNil |-> TRUE, names |-> << >>]

\* json.Marshal(filenames)
Marshal(filenames) == [isNil |-> FALSE, names |-> filenames]

\* uint64(len(filenames)) - 1, computed on unsigned integers
EndIDOf(filenames) == (Len(filenames) - 1) % UintModulus

\* the value loadPhotos returns: (json, err)
LoadResult(listing) ==
  IF ~listing.ok THEN [json |-> NilBytes, err |-> "err"]
  ELSE [json |-> Marshal(Filenames(listing.entries)), err |-> nil]

NoRet == [json |-> NilBytes, err |-> nil]

(* ------------------------------- events -------------------------------- *)
\* the payload a command publishes
\*   "r", fmt.Sprintf("s%d", id), "prev", "next"         (own broker)
\*   SendString("", "reset", ""), SendUint("", "set", id) (sse.Streamer)
EventOf(b, c, i) ==
  IF c = "reset" THEN [tag |-> IF b = "part_000" THEN "reset" ELSE "r", num |-> << >>]
  ELSE IF c = "set" THEN [tag |-> IF b = "part_000" THEN "set" ELSE "s", num |-> << i >>]
  ELSE [tag |-> c, num |-> << >>]

NoPayload == [tag |-> "", num |-> << >>]
NoEvent == [n |-> 0, data |-> NoPayload]

\* fmt.Fprintf(rw, "data: %s\n\n", payload)
Frame(payload) == << "data: ", payload, "\n\n" >>

VARIABLES
  build,      \* which revision runs
  imgID, endID, photoJSON, photoErr,      \* show state (package variables)
  Notifier,   \* buffered channel, capacity 1
  clients,    \* broker.clients: the registry
  bpc,        \* broker.listen: "select" or "range" (inside the fan-out loop)
  event,      \* the event being fanned out
  todo,       \* registry entries the range loop has not visited yet
  target,     \* the entry the range loop is sending to
  hpc,        \* ServeHTTP per connection
  caps,       \* what the ResponseWriter of the connection implements
  npc,        \* the CloseNotify goroutine of the connection
  conn,       \* the connection: "open", "slow", "broken", "closed"
  cur,        \* the event the handler took from messageChan
  cpc, cmd, arg, ret, result,             \* master requests and main
  photosResp, \* the last answer of /photos.json
  nreq,       \* HTTP requests accepted so far
  nfaults,    \* network events so far
  pubSeq,     \* history: every event accepted by Notifier / the streamer
  ndeq,       \* history: events the broker took from Notifier
  got,        \* history: events each handler took from its messageChan
  wire,       \* history: frames put on each connection (n: which event)
  sent,       \* history: events published by the current call of each proc
  startPub,   \* history: events published when the /listen request arrived
  regAt, deregAt, nreg, nderegPresent, nderegSent,  \* history of the registry
  serial,     \* history: no two commands have overlapped so far
  wrapped     \* history: a rescan found no photo, endID wrapped around

showVars == << imgID, endID, photoJSON, photoErr >>
brokerVars == << Notifier, clients, bpc, event, todo, target >>
handlerVars == << hpc, caps, npc, conn, cur, nfaults >>
callVars == << cpc, cmd, arg, ret, result, nreq >>
histVars == << pubSeq, ndeq, got, wire, sent, startPub, regAt, deregAt, nreg,
               nderegPresent, nderegSent, serial, wrapped >>
vars == << build, showVars, brokerVars, handlerVars, callVars, photosResp, histVars >>

\* a Notifier with two buffer slots
NotifierCapTwo == 1 + 1

\* make(chan string, 1)
NotifierCap == 1

NoResp == [status |-> 0, photos |-> NilBytes, id |-> -1]

HasBroker == build # "part_000"
HasShow == build # "part_001"
Serving == cpc["main"] = "idle"

Init ==
  /\ build \in Builds
  /\ imgID = 0 /\ endID = 0 /\ photoJSON = NilBytes /\ photoErr = nil
  /\ Notifier = << >> /\ clients = {} /\ bpc = "select"
  /\ event = NoEvent /\ todo = {} /\ target = "none"
  /\ hpc = [c \in Clients |-> "init"]
  /\ caps = [c \in Clients |-> "?"]
  /\ npc = [c \in Clients |-> "none"]
  /\ conn = [c \in Clients |-> "open"]
  /\ cur = [c \in Clients |-> NoEvent]
  /\ cpc = [p \in Procs |-> IF p = "main" /\ build # "part_001" THEN "reset_img" ELSE "idle"]
  /\ cmd = [p \in Procs |-> IF p = "main" /\ build # "part_001" THEN "reset" ELSE "none"]
  /\ arg = [p \in Procs |-> 0]
  /\ ret = [p \in Procs |-> NoRet]
  /\ result = [p \in Procs |-> "none"]
  /\ photosResp = NoResp
  /\ nreq = 0 /\ nfaults = 0
  /\ pubSeq = << >> /\ ndeq = 0
  /\ got = [c \in Clients |-> << >>]
  /\ wire = [c \in Clients |-> << >>]
  /\ sent = [p \in Procs |-> << >>]
  /\ startPub = [c \in Clients |-> -1]
  /\ regAt = [c \in Clients |-> -1]
  /\ deregAt = [c \in Clients |-> -1]
  /\ nreg = 0 /\ nderegPresent = 0 /\ nderegSent = [c \in Clients |-> 0]
  /\ serial = TRUE /\ wrapped = FALSE


(* --------------------------- publishing -------------------------------- *)
\* the n-th event accepted, with its payload
Msg(payload) == [n |-> Len(pubSeq) + 1, data |-> payload]

\* broker.Notifier <- payload: blocks while the buffer is full.
\* streamer.SendString / SendUint (part_000): handed to the sse package.
Publish(p, payload) ==
  /\ HasBroker => Len(Notifier) < NotifierCap
  /\ Notifier' = IF HasBroker THEN Append(Notifier, Msg(payload)) ELSE Notifier
  /\ pubSeq' = Append(pubSeq, payload)
  /\ sent' = [sent EXCEPT ![p] = Append(@, payload)]

(* ------------------------- master commands ----------------------------- *)
FormCmds == {"set", "reset", "prev", "next", "bogus"}
\* the form value id: decimal digits of a number, or anything else
FormIds == { [text |-> "digits", val |-> i] : i \in Ids } \cup
           { [text |-> "junk", val |-> 0] }

\* a switch whose default case passes the command on
KnownCmdsAll(b) == FormCmds

\* the commands the switch of PhotoMasterCMD / handleCMD knows
KnownCmds(b) == IF b = "part_001" THEN {"prev", "next"} ELSE {"set", "reset"}

\* strconv.ParseUint(r.PostFormValue("id"), 10, 0): err == nil
ParseOK(f) == f.text = "digits" /\ f.val < UintModulus

\* a range check that is off by one
SetIDRejectsOffByOne(id, end) == id > end + 1

\* setID: if id > endID { return errors.New("Invalid ID") }
SetIDRejects(id, end) == id > end

\* a reset that restarts the show at the second photo
ResetImgIDOne == 0 + 1

\* reset: imgID = 0
ResetImgID == 0

\* loadPhotos: which revisions assign endID (part_000 line 120)
LoadSetsEndID(b) == b = "part_000"

\* request goroutines are interchangeable: a request runs on the first
\* one that is free
FirstFree(S, p) == \A q \in S : (cpc[q] = "idle") => ~Before(q, p)

OthersIdle(p) == \A q \in Procs \ {p} : cpc[q] = "idle"

\* PhotoMasterCMD / handleCMD: the switch on the form value cmd
PhotoMasterCMD(p) ==
  /\ Serving /\ cpc[p] = "idle" /\ nreq < MaxRequests
  /\ FirstFree(Handlers, p)
  /\ \E c \in FormCmds, i \in FormIds :
       /\ (c # "set") => i.text = "junk"
       /\ LET known == c \in KnownCmds(build)
              okay == known /\ (c = "set" => ParseOK(i))
          IN /\ cmd' = [cmd EXCEPT ![p] =
                  IF okay THEN c ELSE IF known THEN "badid" ELSE "unknown"]
             /\ arg' = [arg EXCEPT ![p] = IF okay THEN i.val ELSE 0]
             /\ cpc' = [cpc EXCEPT ![p] =
                  IF ~okay THEN "idle"
                  ELSE IF c = "set" THEN "set_check"
                  ELSE IF c = "reset" THEN "reset_img"
                  ELSE "step_send"]
             /\ result' = [result EXCEPT ![p] =
                  IF ~known THEN "500" ELSE IF ~okay THEN "400" ELSE "none"]
  /\ ret' = [ret EXCEPT ![p] = NoRet]
  /\ sent' = [sent EXCEPT ![p] = << >>]
  /\ nreq' = nreq + 1
  /\ serial' = (serial /\ OthersIdle(p))
  /\ UNCHANGED << build, showVars, brokerVars, handlerVars, photosResp,
                  pubSeq, ndeq, got, wire, startPub, regAt, deregAt, nreg,
                  nderegPresent, nderegSent, wrapped >>

callFrame == << build, brokerVars, handlerVars, photosResp, nreq, wrapped,
                ndeq, got, wire, startPub, regAt, deregAt, nreg, nderegPresent,
                nderegSent, serial, cmd, arg >>

\* setID line 181-183
SetIDCheck(p) ==
  /\ cpc[p] = "set_check"
  /\ IF SetIDRejects(arg[p], endID)
       THEN /\ cpc' = [cpc EXCEPT ![p] = "idle"]
            /\ result' = [result EXCEPT ![p] = "400"]
       ELSE /\ cpc' = [cpc EXCEPT ![p] = "set_assign"]
            /\ UNCHANGED result
  /\ UNCHANGED << callFrame, showVars, Notifier, pubSeq, sent, ret >>

\* setID line 185
SetIDAssign(p) ==
  /\ cpc[p] = "set_assign"
  /\ imgID' = arg[p]
  /\ cpc' = [cpc EXCEPT ![p] = "set_send"]
  /\ UNCHANGED << callFrame, endID, photoJSON, photoErr, pubSeq, sent, ret, result >>

\* setID line 186-188
SetIDSend(p) ==
  /\ cpc[p] = "set_send"
  /\ Publish(p, EventOf(build, "set", arg[p]))
  /\ cpc' = [cpc EXCEPT ![p] = "idle"]
  /\ result' = [result EXCEPT ![p] = "ok"]
  /\ UNCHANGED << build, clients, bpc, event, todo, target, handlerVars,
                  photosResp, nreq, ndeq, got, wire, startPub, regAt, deregAt, nreg,
                  nderegPresent, nderegSent, serial, wrapped, cmd, arg, showVars, ret >>

\* reset line 174
ResetImg(p) ==
  /\ cpc[p] = "reset_img"
  /\ imgID' = ResetImgID
  /\ cpc' = [cpc EXCEPT ![p] = "reset_load"]
  /\ UNCHANGED << callFrame, endID, photoJSON, photoErr, pubSeq, sent, ret, result >>

\* loadPhotos: the body, up to its return
ResetLoad(p) ==
  /\ cpc[p] = "reset_load"
  /\ \E listing \in Listings :
       /\ ret' = [ret EXCEPT ![p] = LoadResult(listing)]
       /\ endID' = IF LoadSetsEndID(build) /\ listing.ok
                     THEN EndIDOf(Filenames(listing.entries)) ELSE endID
       /\ wrapped' = (wrapped \/ (LoadSetsEndID(build) /\ listing.ok
                                   /\ Filenames(listing.entries) = << >>))
  /\ cpc' = [cpc EXCEPT ![p] = "reset_store"]
  /\ UNCHANGED << build, brokerVars, handlerVars, photosResp, nreq, ndeq, got,
                  wire, startPub, regAt, deregAt, nreg, nderegPresent,
                  nderegSent, serial, cmd, arg, imgID, photoJSON, photoErr,
                  pubSeq, sent, result >>

\* reset line 175: photoJSON, photoErr = loadPhotos()
ResetStore(p) ==
  /\ cpc[p] = "reset_store"
  /\ photoJSON' = ret[p].json
  /\ photoErr' = ret[p].err
  /\ cpc' = [cpc EXCEPT ![p] = "reset_send"]
  /\ UNCHANGED << callFrame, imgID, endID, pubSeq, sent, ret, result >>

\* reset line 176
ResetSend(p) ==
  /\ cpc[p] = "reset_send"
  /\ Publish(p, EventOf(build, "reset", 0))
  /\ cpc' = [cpc EXCEPT ![p] = "idle"]
  /\ result' = [result EXCEPT ![p] = "ok"]
  /\ UNCHANGED << build, clients, bpc, event, todo, target, handlerVars,
                  photosResp, nreq, ndeq, got, wire, startPub, regAt, deregAt, nreg,
                  nderegPresent, nderegSent, serial, wrapped, cmd, arg, showVars, ret >>

\* handleCMD (part_001): broker.Notifier <- []byte("prev") / "next"
StepSend(p) ==
  /\ cpc[p] = "step_send"
  /\ Publish(p, EventOf(build, cmd[p], 0))
  /\ cpc' = [cpc EXCEPT ![p] = "idle"]
  /\ result' = [result EXCEPT ![p] = "ok"]
  /\ UNCHANGED << build, clients, bpc, event, todo, target, handlerVars,
                  photosResp, nreq, ndeq, got, wire, startPub, regAt, deregAt, nreg,
                  nderegPresent, nderegSent, serial, wrapped, cmd, arg, showVars, ret >>

\* the answer of /photos.json from the show state
Listing(err, json, id) ==
  IF err # nil THEN [status |-> 500, photos |-> NilBytes, id |-> -1]
  ELSE [status |-> 200, photos |-> json, id |-> id]

\* PhotosJSON (server.go, part_000); handlePhotos (part_001) lists the
\* directory itself
PhotosJSON ==
  /\ Serving /\ nreq < MaxRequests
  /\ nreq' = nreq + 1
  /\ IF HasShow
       THEN photosResp' = Listing(photoErr, photoJSON, imgID)
       ELSE \E listing \in Listings :
              photosResp' = Listing(LoadResult(listing).err,
                                    LoadResult(listing).json, -1)
  /\ UNCHANGED << build, showVars, brokerVars, handlerVars, cpc, cmd, arg,
                  ret, result, histVars >>


(* ---------------------- the ResponseWriter ----------------------------- *)
\* what a ResponseWriter may implement
Capabilities == {"plain", "flusher", "flusher+closenotifier"}

\* a handler that skips the capability check
IsFlusherAlways(k) == TRUE

\* flusher, ok := rw.(http.Flusher)
IsFlusher(k) == k # "plain"

\* rw.(http.CloseNotifier): the assertion panics when it does not hold
IsCloseNotifier(k) == k = "flusher+closenotifier"

(* ------------------------- Broker.listen ------------------------------- *)
\* a registry that keeps only the newest client
RegistryAddReplaces(registry, s) == {s}

\* broker.clients[s] = true
RegistryAdd(registry, s) == registry \cup {s}

\* a delete that is forgotten
RegistryDeleteForgotten(registry, s) == registry

\* a delete that empties the registry
RegistryDeleteAll(registry, s) == {}

\* delete(broker.clients, s)
RegistryDelete(registry, s) == registry \ {s}

\* a fan-out that stops after the first client
RangeOverFirstOnly(registry) ==
  IF registry = {} THEN {} ELSE {CHOOSE c \in registry : TRUE}

\* for clientMessageChan, _ := range broker.clients
RangeOver(registry) == registry

\* a broker that serves its registry channels in the middle of a fan-out
AtSelectAlways(pc) == TRUE

\* the loop is at its select (line 123), not inside the range loop
AtSelect(pc) == pc = "select"

\* case s := <-broker.newClients  (rendezvous with ServeHTTP line 95).
\* The handler goes on, on its own, through lines 99-109 (the defer,
\* CloseNotify, the goroutine) to its loop; when the type assertion of
\* line 104 panics, to the deferred send on closingClients instead.
ListenNewClient(c) ==
  /\ AtSelect(bpc) /\ hpc[c] = "register"
  /\ clients' = RegistryAdd(clients, c)
  /\ hpc' = [hpc EXCEPT ![c] = IF IsCloseNotifier(caps[c]) THEN "recv" ELSE "deferred"]
  /\ npc' = [npc EXCEPT ![c] = IF IsCloseNotifier(caps[c]) THEN "wait" ELSE @]
  /\ regAt' = [regAt EXCEPT ![c] = ndeq]
  /\ nreg' = nreg + 1
  /\ UNCHANGED << build, showVars, Notifier, bpc, event, todo, target,
                  caps, conn, cur, nfaults, callVars, photosResp, pubSeq, ndeq,
                  got, wire, sent, startPub, deregAt, nderegPresent, nderegSent, serial, wrapped >>

\* case s := <-broker.closingClients  (rendezvous with the deferred send of
\* ServeHTTP, line 100, or with the send of the CloseNotify goroutine, 108)
ListenClosing(c) ==
  /\ AtSelect(bpc)
  /\ \/ /\ npc[c] = "send"
        /\ npc' = [npc EXCEPT ![c] = "done"]
        /\ hpc' = hpc
     \/ /\ hpc[c] = "deferred"
        /\ hpc' = [hpc EXCEPT ![c] = "exited"]
        /\ npc' = npc
  /\ clients' = RegistryDelete(clients, c)
  /\ deregAt' = [deregAt EXCEPT ![c] = IF c \in clients THEN ndeq ELSE @]
  /\ nderegPresent' = nderegPresent + (IF c \in clients THEN 1 ELSE 0)
  /\ nderegSent' = [nderegSent EXCEPT ![c] = @ + 1]
  /\ UNCHANGED << build, showVars, Notifier, bpc, event, todo, target,
                  caps, conn, cur, nfaults, callVars, photosResp, pubSeq, ndeq,
                  got, wire, sent, startPub, regAt, nreg, serial, wrapped >>

\* case event := <-broker.Notifier, and the start of the range loop
ListenNotifier ==
  /\ AtSelect(bpc) /\ Notifier # << >>
  /\ event' = Head(Notifier)
  /\ Notifier' = Tail(Notifier)
  /\ ndeq' = ndeq + 1
  /\ LET visit == RangeOver(clients)
     IN IF visit = {}
          THEN /\ bpc' = "select" /\ todo' = {} /\ target' = "none"
          ELSE \E t \in visit :
                 /\ bpc' = "range" /\ target' = t /\ todo' = visit \ {t}
  /\ UNCHANGED << build, showVars, clients, handlerVars, callVars, photosResp,
                  pubSeq, got, wire, sent, startPub, regAt, deregAt, nreg,
                  nderegPresent, nderegSent, serial, wrapped >>

\* clientMessageChan <- event  (rendezvous with <-messageChan, line 114),
\* then the next iteration of the range loop
RangeSend(c) ==
  /\ bpc = "range" /\ target = c /\ hpc[c] = "recv"
  /\ hpc' = [hpc EXCEPT ![c] = "write"]
  /\ cur' = [cur EXCEPT ![c] = event]
  /\ got' = [got EXCEPT ![c] = Append(@, event)]
  /\ IF todo = {}
       THEN /\ bpc' = "select" /\ target' = "none" /\ todo' = {}
       ELSE \E t \in todo :
              /\ bpc' = "range" /\ target' = t /\ todo' = todo \ {t}
  /\ UNCHANGED << build, showVars, Notifier, clients, event, caps, npc, conn,
                  nfaults, callVars, photosResp, pubSeq, ndeq, wire, sent, startPub, regAt,
                  deregAt, nreg, nderegPresent, nderegSent, serial, wrapped >>

(* ------------------------ Broker.ServeHTTP ----------------------------- *)
\* a request on /listen arrives: lines 79-95, up to the send on newClients
ServeHTTP(c) ==
  /\ Serving /\ HasBroker /\ hpc[c] = "init" /\ nreq < MaxRequests
  /\ nreq' = nreq + 1
  /\ \A d \in Clients : Before(d, c) => hpc[d] # "init"
  /\ \E k \in Capabilities :
       /\ caps' = [caps EXCEPT ![c] = k]
       /\ hpc' = [hpc EXCEPT ![c] = IF IsFlusher(k) THEN "register" ELSE "unsupported"]
  /\ startPub' = [startPub EXCEPT ![c] = Len(pubSeq)]
  /\ UNCHANGED << build, showVars, brokerVars, npc, conn, cur, nfaults,
                  cpc, cmd, arg, ret, result, photosResp, pubSeq, ndeq, got,
                  wire, sent, regAt, deregAt, nreg, nderegPresent, nderegSent,
                  serial, wrapped >>

\* does a write on this connection put the frame on the wire
WriteSucceeds(k) == k = "open"

\* lines 114-117: Fprintf and Flush; their errors are not looked at
Write(c) ==
  /\ hpc[c] = "write" /\ conn[c] # "slow"
  /\ wire' = [wire EXCEPT ![c] = IF WriteSucceeds(conn[c])
                                   THEN Append(@, [n |-> cur[c].n, bytes |-> Frame(cur[c].data)])
                                   ELSE @]
  /\ hpc' = [hpc EXCEPT ![c] = "recv"]
  /\ UNCHANGED << build, showVars, brokerVars, caps, npc, conn, cur, nfaults, callVars,
                  photosResp, pubSeq, ndeq, got, sent, startPub, regAt, deregAt, nreg,
                  nderegPresent, nderegSent, serial, wrapped >>

(* --------------------------- the network ------------------------------- *)
\* the handler is in its loop; only there does it (or its goroutine)
\* look at the connection
Connected(c) == hpc[c] \in {"recv", "write"}

\* the handler is inside Fprintf / Flush
Writing(c) == hpc[c] = "write"

\* the peer stops reading: writes and flushes block
Stall(c) ==
  /\ Writing(c) /\ conn[c] = "open" /\ nfaults < MaxFaults
  /\ conn' = [conn EXCEPT ![c] = "slow"]
  /\ nfaults' = nfaults + 1
  /\ UNCHANGED << build, showVars, brokerVars, hpc, caps, npc, cur, callVars,
                  photosResp, histVars >>

\* the peer reads again
Resume(c) ==
  /\ conn[c] = "slow"
  /\ conn' = [conn EXCEPT ![c] = "open"]
  /\ nfaults' = nfaults
  /\ UNCHANGED << build, showVars, brokerVars, hpc, caps, npc, cur, callVars,
                  photosResp, histVars >>

\* writes start to fail (write deadline, reset) without a close notification
Break(c) ==
  /\ Writing(c) /\ conn[c] \in {"open", "slow"} /\ nfaults < MaxFaults
  /\ conn' = [conn EXCEPT ![c] = "broken"]
  /\ nfaults' = nfaults + 1
  /\ UNCHANGED << build, showVars, brokerVars, hpc, caps, npc, cur, callVars,
                  photosResp, histVars >>

\* a close notification that never arrives
NotifyNeverFires(g) == FALSE

\* <-notify (line 107): the goroutine that waits for it goes on
NotifyFires(g) == g = "wait"

\* the peer closes the connection: writes fail from now on, CloseNotify
\* fires and the goroutine of lines 106-109 goes on to its send on
\* closingClients
Close(c) ==
  /\ Connected(c) /\ conn[c] # "closed" /\ nfaults < MaxFaults
  /\ conn' = [conn EXCEPT ![c] = "closed"]
  /\ npc' = [npc EXCEPT ![c] = IF NotifyFires(@) THEN "send" ELSE @]
  /\ nfaults' = nfaults + 1
  /\ UNCHANGED << build, showVars, brokerVars, hpc, caps, cur, callVars,
                  photosResp, histVars >>

(* -------------------------- specification ------------------------------ *)
Next ==
  \/ \E p \in Handlers : PhotoMasterCMD(p)
  \/ \E p \in Procs : SetIDCheck(p)
  \/ \E p \in Procs : SetIDAssign(p)
  \/ \E p \in Procs : SetIDSend(p)
  \/ \E p \in Procs : ResetImg(p)
  \/ \E p \in Procs : ResetLoad(p)
  \/ \E p \in Procs : ResetStore(p)
  \/ \E p \in Procs : ResetSend(p)
  \/ \E p \in Procs : StepSend(p)
  \/ PhotosJSON
  \/ \E c \in Clients : ListenNewClient(c)
  \/ \E c \in Clients : ListenClosing(c)
  \/ ListenNotifier
  \/ \E c \in Clients : RangeSend(c)
  \/ \E c \in Clients : ServeHTTP(c)
  \/ \E c \in Clients : Write(c)
  \/ \E c \in Clients : Stall(c)
  \/ \E c \in Clients : Resume(c)
  \/ \E c \in Clients : Break(c)
  \/ \E c \in Clients : Close(c)

Spec == Init /\ [][Next]_vars


(* ----------------------------- fairness -------------------------------- *)
\* Every goroutine that can take a step takes it: the broker loop, the
\* request goroutines and the handlers; a peer that stopped reading reads
\* again (the handlers keep consuming).
Fairness ==
  /\ WF_vars(ListenNotifier)
  /\ \A c \in Clients :
       /\ WF_vars(ListenNewClient(c))
       /\ WF_vars(ListenClosing(c))
       /\ WF_vars(RangeSend(c))
       /\ WF_vars(Write(c))
       /\ WF_vars(Resume(c))
  /\ \A p \in Procs :
       /\ WF_vars(SetIDCheck(p)) /\ WF_vars(SetIDAssign(p)) /\ WF_vars(SetIDSend(p))
       /\ WF_vars(ResetImg(p)) /\ WF_vars(ResetLoad(p)) /\ WF_vars(ResetStore(p))
       /\ WF_vars(ResetSend(p)) /\ WF_vars(StepSend(p))

FairSpec == Init /\ [][Next]_vars /\ Fairness

(* ------------------------------ claims --------------------------------- *)
\* a handler that left its loop (the deferred send after a panic)
StoppedConsuming == \E c \in Clients : hpc[c] \in {"deferred", "exited"}

\* the range loop of the broker still has to send the current event to c
FanOutPending(c) == bpc = "range" /\ (target = c \/ c \in todo)

OnWire(c, n) == \E i \in 1 .. Len(wire[c]) : wire[c][i].n = n

\* the events the broker took from Notifier while c was in the registry
Accepted(c) ==
  IF regAt[c] < 0 THEN {}
  ELSE (regAt[c] + 1) .. (IF deregAt[c] < 0 THEN ndeq ELSE deregAt[c])

Sending(p) == cpc[p] \in {"set_send", "reset_send", "step_send"}

TakesWrites(c) == conn[c] \in {"open", "slow"}

\* C1: what a client has taken from its messageChan is, event for event and
\* in publish order, the events the broker took from Notifier since the
\* client was registered: none twice, none skipped, none out of order; and
\* once a fan-out is over, every client in the registry has all of them.
C1_InOrderOnce ==
  \A c \in Clients :
    /\ \A i \in 1 .. Len(got[c]) :
         /\ got[c][i].n = regAt[c] + i
         /\ got[c][i].n <= Len(pubSeq)
         /\ got[c][i].data = pubSeq[got[c][i].n]
    /\ (c \in clients /\ ~FanOutPending(c)) => regAt[c] + Len(got[c]) = ndeq

\* C1 witness: a registered client has received two events, the second one
\* published after its registration
C1_Witness ==
  \E c \in clients : Len(got[c]) >= 2 /\ ~FanOutPending(c)

\* C2 (as claimed): a client whose /listen request arrives after a publish
\* call has returned never receives that earlier event
C2_NeverEarlierEvent ==
  \A c \in Clients : \A i \in 1 .. Len(got[c]) : got[c][i].n > startPub[c]

\* C2 (amended): a client never receives an event the broker had taken from
\* Notifier before it registered the client, and of the events published
\* before its request arrived it receives at most the last one (the one
\* still in the buffer of Notifier); a client registered before both events
\* receives both, in order.
C2_AtMostTheBufferedEvent ==
  \A c \in Clients : \A i \in 1 .. Len(got[c]) :
    /\ got[c][i].n > regAt[c]
    /\ got[c][i].n > startPub[c] - 1
    /\ got[c][i].n = got[c][1].n + (i - 1)

\* C2 witness: E1 reached the first client only, E2 both; the request of
\* the second client arrived after publish(E1) had returned
C2_Witness ==
  \E c, d \in Clients :
    /\ c # d /\ Len(got[c]) = 2 /\ Len(got[d]) = 1
    /\ got[d][1].n = got[c][2].n
    /\ startPub[d] >= got[c][1].n

\* the peer of c has stopped reading and the handler of c is inside its write
Stalled(c) == hpc[c] = "write" /\ conn[c] = "slow"

\* the broker is inside the fan-out, sending to c, and c is not receiving
BlockedOn(c) == bpc = "range" /\ target = c /\ hpc[c] # "recv"

\* C3 (as claimed): a stalled handler stalls nobody else: while the handler
\* of c is stalled, the broker is not held up by c with another registered
\* client ready to receive and still waiting for the event, nor with a
\* publisher waiting for room in Notifier.
C3_StalledHandlerStallsNobody ==
  \A c \in Clients :
    (Stalled(c) /\ BlockedOn(c)) =>
      /\ \A d \in todo : hpc[d] # "recv"
      /\ \A p \in Procs : Sending(p) => Len(Notifier) < NotifierCap

\* C5: once the broker has processed the deregistration of a handle, the
\* handle is outside the registry and outside every fan-out, and its handler
\* has received no event the broker took from Notifier after that.
C5_NothingAfterDeregistration ==
  \A c \in Clients :
    deregAt[c] >= 0 =>
      /\ c \notin clients
      /\ ~FanOutPending(c)
      /\ \A i \in 1 .. Len(got[c]) : got[c][i].n <= deregAt[c]

\* C5 witness: an event was fanned out after a client that had received
\* events was deregistered
C5_Witness ==
  \E c \in Clients :
    deregAt[c] >= 0 /\ ndeq > deregAt[c] /\ Len(got[c]) >= 1 /\ bpc = "select"

\* C4: under fair scheduling, with every handler consuming its queue, every
\* event the broker takes from Notifier while client c is in the registry is
\* eventually written as a frame to the connection of c (as long as that
\* connection takes writes), and every publish call eventually returns.
C4_EventuallyWritten ==
  /\ \A c \in Clients :
       []<>(\/ \A n \in Accepted(c) : OnWire(c, n)
            \/ ~TakesWrites(c)
            \/ StoppedConsuming)
  /\ []<>((\A p \in Procs : ~Sending(p)) \/ StoppedConsuming)

\* C4 witness: an event accepted while the client was registered is on its wire
C4_Witness ==
  \E c \in Clients : \E n \in Accepted(c) : OnWire(c, n) /\ n > startPub[c]


(* --------------------------- the show state ---------------------------- *)
Quiescent == \A p \in Procs : cpc[p] = "idle"

\* in a run without overlapping commands: the goroutine of the last command
LastCall == IF cmd["h1"] # "none" THEN "h1" ELSE "main"

InReset(p) == cpc[p] \in {"reset_img", "reset_load", "reset_store", "reset_send"}

IsSetEvent(e, id) == e.tag \in {"s", "set"} /\ e.num = << id >>
IsResetEvent(e) == e.tag \in {"r", "reset"} /\ e.num = << >>

\* C6 (as claimed): in every reachable state, whatever the interleaving of
\* reset, setID and listing requests, imgID <= endID whenever endID is valid
\* (no rescan has found an empty directory and made endID wrap around)
C6_IndexWithinRange == (HasShow /\ ~wrapped) => imgID <= endID

\* C7 (as claimed): when commands do not overlap and the last rescan read a
\* directory with n >= 1 files, endID = n - 1; right after the reset imgID
\* is 0; a following setID(k) succeeds exactly when k <= n - 1, and the
\* listing then reports id k.
C7_ResetThenSetID ==
  (HasShow /\ serial /\ Quiescent /\ photoErr = nil /\ Len(photoJSON.names) >= 1) =>
    LET n == Len(photoJSON.names)
        p == LastCall
    IN /\ endID = n - 1
       /\ cmd[p] = "reset" => imgID = 0
       /\ cmd[p] = "set" =>
            /\ arg[p] <= n - 1 =>
                 (result[p] = "ok" /\ Listing(photoErr, photoJSON, imgID).id = arg[p])
            /\ arg[p] > n - 1 => result[p] = "400"

\* C8: a setID(id) with id > endID returns an error, leaves imgID as it is
\* and publishes nothing; with id <= endID it sets imgID to id, publishes
\* exactly one set event carrying id and returns no error.
C8_SetID ==
  /\ [][\A p \in Procs :
          /\ (cpc[p] = "set_check" /\ cpc'[p] # "set_check") =>
               IF arg[p] > endID
                 THEN /\ cpc'[p] = "idle" /\ result'[p] = "400"
                      /\ imgID' = imgID /\ pubSeq' = pubSeq /\ sent'[p] = << >>
                 ELSE /\ cpc'[p] = "set_assign" /\ result'[p] = "none"
          /\ (cpc[p] = "set_assign" /\ cpc'[p] # "set_assign") =>
               /\ imgID' = arg[p] /\ cpc'[p] = "set_send"
          /\ (cpc[p] = "set_send" /\ cpc'[p] # "set_send") =>
               /\ cpc'[p] = "idle" /\ result'[p] = "ok"
               /\ Len(pubSeq') = Len(pubSeq) + 1
               /\ IsSetEvent(pubSeq'[Len(pubSeq')], arg[p])]_vars
  /\ [](\A p \in Procs :
          (cmd[p] = "set" /\ cpc[p] = "idle") =>
            /\ result[p] = "400" => sent[p] = << >>
            /\ result[p] = "ok" => (Len(sent[p]) = 1 /\ IsSetEvent(sent[p][1], arg[p])))

\* C8 witness: a setID(id) with id >= 1 has been accepted and has returned
C8_Witness ==
  \E p \in Procs :
    /\ cmd[p] = "set" /\ cpc[p] = "idle" /\ result[p] = "ok"
    /\ arg[p] >= 1 /\ imgID = arg[p] /\ Len(sent[p]) = 1

\* C9: every call of reset publishes exactly one reset event, whether the
\* rescan failed or not; when commands do not overlap, a listing read after
\* a reset whose rescan failed answers with an error, and after a reset
\* whose rescan succeeded with the list just read and id 0.
C9_Reset ==
  /\ \A p \in Procs :
       /\ InReset(p) => sent[p] = << >>
       /\ (cmd[p] = "reset" /\ cpc[p] = "idle") =>
            (Len(sent[p]) = 1 /\ IsResetEvent(sent[p][1]) /\ result[p] = "ok")
  /\ (HasShow /\ serial /\ Quiescent /\ cmd[LastCall] = "reset") =>
       LET r == ret[LastCall]
           answer == Listing(photoErr, photoJSON, imgID)
       IN IF r.err # nil
            THEN answer.status = 500 /\ answer.photos = NilBytes
            ELSE answer = [status |-> 200, photos |-> r.json, id |-> 0]

\* C9 witness: a reset on an unreadable directory, after one that had read
\* photos, has published its event and a listing read was answered with 500
C9_Witness ==
  /\ serial /\ Quiescent /\ cmd["h1"] = "reset" /\ ret["h1"].err # nil
  /\ Len(sent["h1"]) = 1 /\ Len(sent["main"]) = 1 /\ ~ret["main"].json.isNil
  /\ photosResp.status = 500

\* C10: the size of the registry is the number of registrations minus the
\* number of deregistrations whose handle was in the registry, never below
\* zero, and taking an event from Notifier and fanning it out leaves the
\* registry as it is.
C10_RegistrySize ==
  /\ [](/\ Cardinality(clients) = nreg - nderegPresent
        /\ nreg - nderegPresent >= 0
        /\ \A c \in Clients : c \in clients <=> (regAt[c] >= 0 /\ deregAt[c] < 0))
  /\ [][(ndeq' # ndeq \/ got' # got \/ pubSeq' # pubSeq) => clients' = clients]_vars

\* C10 witness: two registrations, one deregistration, one client left, and
\* an event has been fanned out
C10_Witness ==
  nreg = 2 /\ nderegPresent = 1 /\ Cardinality(clients) = 1 /\ ndeq >= 1

(* ------------------- the broker loop taken alone ----------------------- *)
\* Broker.listen serves whatever arrives on newClients and closingClients;
\* here it is driven by every sequence of requests, also by requests for a
\* handle that is not in the registry.
RegistryOps == nreg + nderegSent["c1"] + nderegSent["c2"]

notRegistry == << build, showVars, Notifier, bpc, event, todo, target,
                  handlerVars, callVars, photosResp, pubSeq, ndeq, got, wire,
                  sent, startPub, serial, wrapped >>

\* case s := <-broker.newClients
BrokerRegister(c) ==
  /\ bpc = "select" /\ RegistryOps < MaxRegistryOps
  /\ clients' = RegistryAdd(clients, c)
  /\ regAt' = [regAt EXCEPT ![c] = ndeq]
  /\ nreg' = nreg + 1
  /\ UNCHANGED << notRegistry, deregAt, nderegPresent, nderegSent >>

\* case s := <-broker.closingClients
BrokerDeregister(c) ==
  /\ bpc = "select" /\ RegistryOps < MaxRegistryOps
  /\ clients' = RegistryDelete(clients, c)
  /\ deregAt' = [deregAt EXCEPT ![c] = IF c \in clients THEN ndeq ELSE @]
  /\ nderegPresent' = nderegPresent + (IF c \in clients THEN 1 ELSE 0)
  /\ nderegSent' = [nderegSent EXCEPT ![c] = @ + 1]
  /\ UNCHANGED << notRegistry, regAt, nreg >>

BrokerNext ==
  \/ \E c \in Clients : BrokerRegister(c)
  \/ \E c \in Clients : BrokerDeregister(c)

\* NewServer, in the revisions that have the broker
BrokerInit == Init /\ HasBroker

BrokerSpec == BrokerInit /\ [][BrokerNext]_vars

\* C11: deregistering a handle removes that handle and no other one; when the
\* handle is not in the registry (it was deregistered before, or never
\* registered) the registry stays as it is, and deregistering it once more
\* after any deregistration changes nothing.
C11_DeregisterIdempotent ==
  [][\A c \in Clients :
       nderegSent'[c] # nderegSent[c] =>
         /\ clients' = clients \ {c}
         /\ c \notin clients => clients' = clients
         /\ RegistryDelete(clients', c) = clients'
         /\ nreg' = nreg]_vars

\* C11 witness: a handle was deregistered twice while another handle stays
\* registered
C11_Witness ==
  \E c, d \in Clients :
    /\ c # d /\ nderegSent[c] >= 2 /\ nderegPresent = 1
    /\ c \notin clients /\ d \in clients


(* ----------------------- disconnecting --------------------------------- *)
\* writes of the handler of c that did not put their frame on the wire
FailedWrites(c) ==
  Len(got[c]) - Len(wire[c]) - (IF hpc[c] = "write" THEN 1 ELSE 0)

\* deregister requests issued for the handle of c: the send of the
\* CloseNotify goroutine (line 108) and the deferred send (line 100),
\* whether the broker has taken them yet or not
Requests(c) ==
  (IF npc[c] \in {"send", "done"} THEN 1 ELSE 0)
  + (IF hpc[c] \in {"deferred", "exited"} THEN 1 ELSE 0)

InLoop(c) == hpc[c] \in {"recv", "write"}

\* C12 (as claimed): a write failure disconnects that connection and only
\* that one: once a write of a handler has failed, the deregistration of its
\* handle has been requested (the handler is not back in its loop as if
\* nothing had happened), and no handle is deregistered without a request
\* of its own.
C12_WriteFailureDisconnects ==
  \A c \in Clients :
    /\ FailedWrites(c) > 0 => Requests(c) >= 1
    /\ deregAt[c] >= 0 => Requests(c) >= 1

\* C13: for each connection at most one deregister request is ever issued,
\* the broker processes no more requests than were issued, and once the
\* connection has closed one has been issued -- also when a failed write
\* and the close notification both occur.
C13_DeregisterOnce ==
  \A c \in Clients :
    /\ Requests(c) <= 1
    /\ nderegSent[c] <= Requests(c)
    /\ conn[c] = "closed" => Requests(c) = 1
    /\ hpc[c] = "exited" => nderegSent[c] = 1

\* C13 witness: the connection closed, a write failed as well, and the
\* broker has processed the one deregister request of the handle
C13_Witness ==
  \E c \in Clients :
    /\ conn[c] = "closed" /\ FailedWrites(c) > 0
    /\ npc[c] = "done" /\ nderegSent[c] = 1 /\ c \notin clients

\* C14 (as claimed): after the connection has closed the delivery loop of
\* its handler terminates: the handler eventually is outside its loop and
\* waits on its queue no longer.
C14_LoopTerminates ==
  \A c \in Clients : (conn[c] = "closed") ~> ~InLoop(c)


\* C15: a /listen request whose ResponseWriter cannot flush is answered with
\* the error at once and returns: its handle is never registered, it issues
\* no deregister request, it receives and writes no event, and its arrival
\* leaves the registry and the published events as they are.
C15_UnsupportedFailsFast ==
  /\ [](\A c \in Clients :
          caps[c] = "plain" =>
            /\ hpc[c] = "unsupported"
            /\ regAt[c] < 0 /\ c \notin clients /\ ~FanOutPending(c)
            /\ Requests(c) = 0
            /\ got[c] = << >> /\ wire[c] = << >>)
  /\ [][\A c \in Clients :
          (caps[c] = "?" /\ caps'[c] = "plain") =>
            /\ clients' = clients /\ nreg' = nreg
            /\ pubSeq' = pubSeq /\ Notifier' = Notifier]_vars

\* C15 witness: after a request that could not flush was turned away, an
\* event was fanned out to the other, registered client
C15_Witness ==
  \E c, d \in Clients :
    /\ caps[c] = "plain" /\ hpc[c] = "unsupported"
    /\ d \in clients /\ Len(wire[d]) >= 1 /\ wire[d][1].n > startPub[c]


(* ------------------------ malformed commands --------------------------- *)
\* what a request goroutine may be working on in this revision: nothing,
\* one of the commands of the revision, or a rejected form
WellFormed(b) == IF b = "part_001" THEN {"prev", "next"} ELSE {"set", "reset"}

\* C16: a master command with an unknown or missing cmd value, or cmd=set
\* with an unparsable id, is answered with an error (500, 400) at once; it
\* changes neither imgID, endID, the photo list nor its error, and publishes
\* no event; nothing but the commands of the revision is ever carried out.
C16_MalformedCommand ==
  /\ [](\A p \in Handlers :
          /\ cmd[p] \in WellFormed(build) \cup {"none", "badid", "unknown"}
          /\ cmd[p] \in {"badid", "unknown"} =>
               /\ cpc[p] = "idle" /\ sent[p] = << >>
               /\ result[p] = (IF cmd[p] = "badid" THEN "400" ELSE "500"))
  /\ [][\A p \in Handlers :
          (cpc[p] = "idle" /\ cmd'[p] \in {"badid", "unknown"} /\ nreq' # nreq) =>
            /\ cpc'[p] = "idle"
            /\ showVars' = showVars
            /\ pubSeq' = pubSeq /\ Notifier' = Notifier]_vars

\* C16 witness: after a reset that read photos, and with a client listening,
\* a malformed command was answered with an error
C16_Witness ==
  \E p \in Handlers :
    /\ cmd[p] \in {"badid", "unknown"} /\ result[p] \in {"400", "500"}
    /\ cpc[p] = "idle" /\ clients # {}
    /\ HasShow => (Len(pubSeq) = 1 /\ ~photoJSON.isNil)


(* ------------------------ one event at a time -------------------------- *)
\* C17: the broker fans one event out completely before it serves anything
\* else: a client that has received an event finds every other client of
\* the registry (registered before the previous event was taken) in
\* possession of the previous event, and inside a fan-out no registration,
\* no deregistration and no further event is taken.
C17_FanOutAtomic ==
  /\ [](\A c \in clients : \A d \in clients \ {c} :
          \A i \in 1 .. Len(got[c]) :
            (got[c][i].n - 1 > regAt[d]) =>
              \E j \in 1 .. Len(got[d]) : got[d][j].n = got[c][i].n - 1)
  /\ [][bpc = "range" =>
          /\ clients' = clients /\ nreg' = nreg /\ nderegSent' = nderegSent
          /\ ndeq' = ndeq /\ event' = event]_vars

\* C17 witness: two events went, one after the other, to the same two
\* registered clients
C17_Witness ==
  \E c, d \in clients :
    /\ c # d /\ Len(got[c]) = 2 /\ Len(got[d]) = 2
    /\ got[c][1].n = got[d][1].n


\* the broker is inside `clientMessageChan <- event` for the handle of c
\* while the handler of c is inside its deferred `closingClients <- ...`:
\* each waits for the other to receive
Deadlocked(c) == bpc = "range" /\ target = c /\ hpc[c] = "deferred"

IndexOf(e) == IF e.num = << >> THEN 0 ELSE e.num[1]

\* every call has returned and the broker has fanned out every event
AllDelivered == Quiescent /\ Notifier = << >> /\ bpc = "select"

\* C19 (as claimed): whatever the interleaving of setID and reset calls, once
\* all calls have returned and all events are delivered, the index of the
\* last event published equals imgID, the id the listing reports (stated
\* for runs in which no rescan has made endID wrap around).
C19_StreamAgreesWithState ==
  (HasShow /\ ~wrapped /\ AllDelivered /\ pubSeq # << >>) =>
    /\ IndexOf(pubSeq[Len(pubSeq)]) = imgID
    /\ photoErr = nil =>
         Listing(photoErr, photoJSON, imgID).id = IndexOf(pubSeq[Len(pubSeq)])


\* C20 (as claimed): after a setID(id) that succeeded, imgID refers to a
\* photo: id is smaller than the number of photos the last rescan found
\* (commands taken one after the other, the last rescan a successful one);
\* so after a rescan that found no photo every setID is rejected.
C20_IndexRefersToPhoto ==
  (HasShow /\ serial /\ Quiescent /\ photoErr = nil
     /\ cmd[LastCall] = "set" /\ result[LastCall] = "ok") =>
    /\ arg[LastCall] < Len(photoJSON.names)
    /\ imgID < Len(photoJSON.names)


====
